---- MODULE Spec2Model ----
(***************************************************************************)
(* A model of jsonpp.py: the recursive pretty-printer `jsonpp`/`handle`,   *)
(* the two formatters (PlainFormatter, TTYFormatter) and the loop of       *)
(* `main` that renders several documents with one formatter.               *)
(*                                                                         *)
(* Text is a sequence of Unicode code points (integers); the output stream *)
(* is the concatenation of everything written to it.  `handle` is modelled *)
(* with an explicit call stack, one action per formatter call.             *)
(***************************************************************************)
EXTENDS Integers, Sequences, FiniteSets, TLC

(* ------------------------------ bounds --------------------------------- *)
MaxStrLen == 2
MaxNodes == 3
MaxFiles == 2

(* --------------------------- ANSI constants ---------------------------- *)
\* "\x1B[39m"
DEFAULT_COLOR == <<27, 91, 51, 57, 109>>
\* "\x1B[31m"
RED == <<27, 91, 51, 49, 109>>
\* "\x1B[35m"
MAGENTA == <<27, 91, 51, 53, 109>>
\* "\x1B[36m"
CYAN == <<27, 91, 51, 54, 109>>

(* ----------------------------- formatters ------------------------------ *)
Plain_begin_string == <<>>
Plain_end_string == <<>>
Plain_cdata(cdata) == cdata
Plain_escape_sequence(escape_sequence) == escape_sequence
Plain_bracket(bracket) == bracket
Plain_value(value) == value
Plain_delimeter(delimeter) == delimeter

TTY_begin_string == RED
TTY_end_string == DEFAULT_COLOR
TTY_escape_sequence_lost(escape_sequence) == CYAN \o RED
TTY_escape_sequence(escape_sequence) == CYAN \o escape_sequence \o RED
TTY_value_noreset(value) == MAGENTA \o value
TTY_value(value) == MAGENTA \o value \o DEFAULT_COLOR

\* What one formatter call writes to the output, by formatter class.
\* TTYFormatter inherits cdata, bracket and delimeter from PlainFormatter.
Write(formatter, op, arg) ==
    CASE op = "begin_string" ->
            IF formatter = "TTY" THEN TTY_begin_string ELSE Plain_begin_string
      [] op = "end_string" ->
            IF formatter = "TTY" THEN TTY_end_string ELSE Plain_end_string
      [] op = "escape_sequence" ->
            IF formatter = "TTY" THEN TTY_escape_sequence(arg)
                                 ELSE Plain_escape_sequence(arg)
      [] op = "value" ->
            IF formatter = "TTY" THEN TTY_value(arg) ELSE Plain_value(arg)
      [] op = "cdata" -> Plain_cdata(arg)
      [] op = "bracket" -> Plain_bracket(arg)
      [] op = "delimeter" -> Plain_delimeter(arg)

(* ------------------------------ char maps ------------------------------ *)
\* keys: '"' '\\' '\b' '\f' '\n' '\r' '\t'; values: backslash + letter
CHAR_MAP ==
    (34 :> <<92, 34>>) @@ (92 :> <<92, 92>>) @@ (8 :> <<92, 98>>) @@
    (12 :> <<92, 102>>) @@ (10 :> <<92, 110>>) @@ (13 :> <<92, 114>>) @@
    (9 :> <<92, 116>>)

SLASH_CHAR_MAP == CHAR_MAP @@ (47 :> <<92, 47>>)

char_map(escape_slash) == IF escape_slash THEN SLASH_CHAR_MAP ELSE CHAR_MAP

(* --------------------------- scalar rendering -------------------------- *)
RECURSIVE Digits(_, _)
\* the digits of n >= 0 in the given base, most significant first
Digits(n, base) ==
    LET d == n % base
        ch == IF d < 10 THEN 48 + d ELSE 55 + d
    IN IF n < base THEN <<ch>> ELSE Digits(n \div base, base) \o <<ch>>

RECURSIVE ZeroPad(_, _)
ZeroPad(s, width) == IF Len(s) >= width THEN s ELSE ZeroPad(<<48>> \o s, width)

\* '%04X' % n
Hex04(n) == IF n < 0 THEN <<45>> \o ZeroPad(Digits(-n, 16), 3)
                     ELSE ZeroPad(Digits(n, 16), 4)

\* repr of an int
ReprInt(n) == IF n < 0 THEN <<45>> \o Digits(-n, 10) ELSE Digits(n, 10)

\* repr of a bool: 'True' / 'False'
ReprBool(b) == IF b THEN <<84, 114, 117, 101>> ELSE <<70, 97, 108, 115, 101>>

\* repr of a finite float; the model's finite floats are the halves h/2
ReprFloat(h) ==
    LET a == IF h < 0 THEN -h ELSE h
        body == Digits(a \div 2, 10) \o <<46>> \o (IF a % 2 = 0 THEN <<48>> ELSE <<53>>)
    IN IF h < 0 THEN <<45>> \o body ELSE body

\* str.isprintable for the code points it is consulted on (cp <= 127)
isprintable(cp) == cp \in 32..126

\* line 146: cp > 127 or not c.isprintable()
NotPlain(cp) == IF cp > 127 THEN TRUE ELSE ~isprintable(cp)

\* lines 147-154: the \uXXXX form of a code point
UnicodeEscape(c) ==
    IF c < 65535
      THEN <<92, 117>> \o Hex04(c)
      ELSE LET cp == c - 65536
               high == (cp \div 1024) + 55296
               low == (cp % 1024) + 56320
           IN <<92, 117>> \o Hex04(high) \o <<92, 117>> \o Hex04(low)

(* ------------------------------- values -------------------------------- *)
\* A value is a record tagged by k: "null", "bool" (b), "int" (n),
\* "float" (f in nan/inf/ninf/fin, h the numerator of halves), "str" (s),
\* "list" (items), "dict" (keys in insertion order, vals), "other".
VNone == [k |-> "null"]
VBool(b) == [k |-> "bool", b |-> b]
VInt(n) == [k |-> "int", n |-> n]
VFloat(f, h) == [k |-> "float", f |-> f, h |-> h]
VStr(s) == [k |-> "str", s |-> s]
VList(items) == [k |-> "list", items |-> items]
VDict(keys, vals) == [k |-> "dict", keys |-> keys, vals |-> vals]
VOther == [k |-> "other"]

\* isinstance(value, int): bool is a subclass of int in Python
IsInstanceInt(value) == value.k \in {"int", "bool"}

\* The branch of handle's if/elif chain that a value takes (lines 121-210).
Branch(value) ==
    IF value.k = "null" THEN "none"
    ELSE IF IsInstanceInt(value) THEN "int"
    ELSE IF value.k = "float" THEN "float"
    ELSE IF value.k = "str" THEN "str"
    ELSE IF value.k = "list" THEN "list"
    ELSE IF value.k = "dict" THEN "dict"
    ELSE IF value.k = "bool" THEN "bool"
    ELSE "else"

\* The token passed to formatter.value by the scalar branches.
ValueToken(value) ==
    CASE Branch(value) = "none" -> <<110, 117, 108, 108>>
      [] Branch(value) = "int" ->
            IF value.k = "bool" THEN ReprBool(value.b) ELSE ReprInt(value.n)
      [] Branch(value) = "float" ->
            IF value.f = "nan" THEN <<78, 97, 78>>
            ELSE IF value.f \in {"inf", "ninf"}
              THEN IF value.f = "ninf"
                     THEN <<45, 73, 110, 102, 105, 110, 105, 116, 121>>
                     ELSE <<73, 110, 102, 105, 110, 105, 116, 121>>
              ELSE ReprFloat(value.h)
      [] Branch(value) = "bool" ->
            IF value.b THEN <<116, 114, 117, 101>> ELSE <<102, 97, 108, 115, 101>>

\* Python's str ordering: lexicographic by code point
RECURSIVE StrLess(_, _)
StrLess(a, b) ==
    IF a = <<>> THEN b # <<>>
    ELSE IF b = <<>> THEN FALSE
    ELSE IF Head(a) # Head(b) THEN Head(a) < Head(b)
    ELSE StrLess(Tail(a), Tail(b))

RECURSIVE Insert(_, _)
Insert(key, sortedKeys) ==
    IF sortedKeys = <<>> THEN <<key>>
    ELSE IF StrLess(key, Head(sortedKeys)) THEN <<key>> \o sortedKeys
    ELSE <<Head(sortedKeys)>> \o Insert(key, Tail(sortedKeys))

RECURSIVE sorted(_)
sorted(keys) == IF keys = <<>> THEN <<>> ELSE Insert(Head(keys), sorted(Tail(keys)))

KeyOrder_unsorted(value, sort_keys_) == value.keys
\* line 182: the keys of a dict in the order the loop visits them
KeyOrder(value, sort_keys_) == IF sort_keys_ THEN sorted(value.keys) ELSE value.keys

\* value[key]
Lookup(value, key) == value.vals[CHOOSE j \in 1..Len(value.keys) : value.keys[j] = key]

(* ------------------------------- inputs -------------------------------- *)
\* '"' '/' '\n' 'a' ESC e-acute U+FFFF U+10000 U+1F600
Chars == {34, 47, 10, 97, 27, 233, 65535, 65536, 128512}

Strings == UNION {[1..m -> Chars] : m \in 0..MaxStrLen}

RootScalars ==
    {VNone, VBool(TRUE), VBool(FALSE), VInt(-12), VInt(0), VInt(7),
     VFloat("nan", 0), VFloat("inf", 0), VFloat("ninf", 0),
     VFloat("fin", 3), VFloat("fin", -1), VOther}

\* leaves of nested documents; the string is 'a' + newline
NLeaves == {VBool(TRUE), VStr(<<97, 10>>), VOther}

\* object keys: "b" and "a\n" (insertion order b, a differs from sorted order)
Keys == {<<98>>, <<97, 10>>}

\* sequences of distinct keys (a parser yields unique keys)
KeySeqs ==
    {ks \in UNION {[1..m -> Keys] : m \in 0..Cardinality(Keys)} :
        \A i, j \in 1..Len(ks) : i # j => ks[i] # ks[j]}

RECURSIVE TreesOfSize(_), Forests(_)
\* the value trees with exactly n nodes (keys are not counted)
TreesOfSize(n) ==
    (IF n = 1 THEN NLeaves ELSE {})
    \cup {VList(f) : f \in Forests(n - 1)}
    \cup {VDict(p[1], p[2]) :
            p \in {q \in KeySeqs \X Forests(n - 1) : Len(q[1]) = Len(q[2])}}
\* the sequences of value trees with n nodes in total
Forests(n) ==
    IF n = 0 THEN {<<>>}
    ELSE UNION {{<<t>> \o f : t \in TreesOfSize(m), f \in Forests(n - m)} : m \in 1..n}

\* larger documents, as Python literals:
\*   {"b": [True, "a\n"], "a\n": {"b": None, "a\n": 7}}
\*   [[], {}, [{"b": -0.5, "a\n": [object()]}]]
\*   ({"a\n": [7, [None, False]]}, "/")
Fixtures ==
    {VDict(<<<<98>>, <<97, 10>>>>,
           <<VList(<<VBool(TRUE), VStr(<<97, 10>>)>>),
             VDict(<<<<98>>, <<97, 10>>>>, <<VNone, VInt(7)>>)>>),
     VList(<<VList(<<>>), VDict(<<>>, <<>>),
             VList(<<VDict(<<<<98>>, <<97, 10>>>>,
                           <<VFloat("fin", -1), VList(<<VOther>>)>>)>>)>>),
     VList(<<VDict(<<<<97, 10>>>>,
                   <<VList(<<VInt(7), VList(<<VNone, VBool(FALSE)>>)>>)>>),
             VStr(<<47>>)>>)}

Docs ==
    RootScalars \cup {VStr(s) : s \in Strings}
    \cup UNION {TreesOfSize(n) : n \in 1..MaxNodes}
    \cup Fixtures

\* documents of a multi-file run of main (what json.load can return)
SmallDocs == {VNone, VStr(<<97>>), VDict(<<<<98>>>>, <<VList(<<VInt(7)>>)>>)}

FileLists ==
    {<<d>> : d \in Docs} \cup UNION {[1..m -> SmallDocs] : m \in 2..MaxFiles}

\* a tab, or two spaces
Indents == {<<9>>, <<32, 32>>}

(* -------------------------------- state -------------------------------- *)
VARIABLES
    files,          \* main: the documents still to render
    indent,         \* opts.indent
    sort_keys,      \* opts.sort_keys
    escape_slash,   \* opts.escape_slash
    formatter,      \* "Plain" or "TTY": the class of the one formatter object
    pc,             \* "main" | "handle" | "raised"
    stack,          \* the activations of handle, innermost last
    output,         \* everything written to the output stream
    fg,             \* the terminal: the foreground colour code in force
    events,         \* history: the formatter calls made so far
    docs            \* history: the data of each jsonpp call started so far

vars == <<files, indent, sort_keys, escape_slash, formatter, pc, stack,
          output, fg, events, docs>>

config == <<indent, sort_keys, escape_slash, formatter>>

Top == stack[Len(stack)]

\* An activation of handle(value, indentation). pc is the position in its
\* branch, i the position of its iterator, keys the sequence a dict branch
\* iterates over; path (history) locates value in the document:
\* <<j, 0>> is the j-th item/value visited, <<j, 1>> the j-th key visited.
Frame(value, indentation, path) ==
    [value |-> value, indentation |-> indentation, pc |-> "start", i |-> 0,
     keys |-> <<>>, path |-> path]

Init ==
    /\ files \in FileLists
    /\ indent \in Indents
    /\ sort_keys \in BOOLEAN
    /\ escape_slash \in BOOLEAN
    /\ formatter \in {"Plain", "TTY"}
    /\ pc = "main"
    /\ stack = <<>>
    /\ output = <<>>
    /\ fg = DEFAULT_COLOR
    /\ events = <<>>
    /\ docs = <<>>

\* The colour codes a terminal is sent by either formatter.
SGRCodes == {DEFAULT_COLOR, RED, MAGENTA, CYAN}

IsSGRAt(text, i) == i + 4 <= Len(text) /\ SubSeq(text, i, i + 4) \in SGRCodes

RECURSIVE FgScan(_, _, _)
\* the colour code in force after text[i..] is written while cur is in force
FgScan(text, i, cur) ==
    IF i > Len(text) THEN cur
    ELSE IF IsSGRAt(text, i) THEN FgScan(text, i + 5, SubSeq(text, i, i + 4))
    ELSE FgScan(text, i + 1, cur)

\* One formatter call: what it appends to the output, and its record in the
\* history (site: the place in handle it is made from; cp: the character a
\* string branch is rendering, -1 otherwise; at: the output length and
\* fg: the colour in force before it; call: the jsonpp call it belongs to).
Emit(op, arg, site, cp, node) ==
    /\ output' = output \o Write(formatter, op, arg)
    /\ fg' = FgScan(Write(formatter, op, arg), 1, fg)
    /\ events' = Append(events,
          [op |-> op, arg |-> arg, site |-> site, cp |-> cp, node |-> node,
           at |-> Len(output), fg |-> fg, call |-> Len(docs)])

\* the stack after the innermost activation moves to position p
Goto(p) == [stack EXCEPT ![Len(stack)].pc = p]

\* the stack after the innermost activation returns
Return == SubSeq(stack, 1, Len(stack) - 1)

InHandle(branch, p) ==
    /\ pc = "handle"
    /\ stack # <<>>
    /\ Branch(Top.value) = branch
    /\ Top.pc = p

(* ------------------------------ main, jsonpp --------------------------- *)
\* main lines 240-243 / jsonpp lines 113-118, 212: the next file is loaded
\* and jsonpp is entered: handle(data, '')
JsonppCall ==
    /\ pc = "main"
    /\ files # <<>>
    /\ files' = Tail(files)
    /\ docs' = Append(docs, Head(files))
    /\ stack' = <<Frame(Head(files), <<>>, <<>>)>>
    /\ pc' = "handle"
    /\ UNCHANGED <<config, output, fg, events>>

\* jsonpp returning without the final line break
JsonppTail_silent ==
    /\ pc = "handle"
    /\ stack = <<>>
    /\ pc' = "main"
    /\ UNCHANGED <<config, files, stack, output, fg, events, docs>>

\* line 213: formatter.cdata('\n'), and jsonpp returns to main
JsonppTail ==
    /\ pc = "handle"
    /\ stack = <<>>
    /\ Emit("cdata", <<10>>, "tail", -1, <<>>)
    /\ pc' = "main"
    /\ UNCHANGED <<config, files, stack, docs>>

(* ------------------------------- scalars ------------------------------- *)
\* lines 121-136, 206-207: formatter.value(token)
HandleValue ==
    /\ pc = "handle"
    /\ stack # <<>>
    /\ Branch(Top.value) \in {"none", "int", "float", "bool"}
    /\ Emit("value", ValueToken(Top.value), Branch(Top.value), -1, Top.path)
    /\ stack' = Return
    /\ UNCHANGED <<config, files, pc, docs>>

\* the else branch returning instead of raising
HandleElse_pass ==
    /\ pc = "handle"
    /\ stack # <<>>
    /\ Branch(stack[Len(stack)].value) = "else"
    /\ stack' = SubSeq(stack, 1, Len(stack) - 1)
    /\ UNCHANGED <<config, files, pc, output, fg, events, docs>>

\* lines 209-210: raise ValueError(value); nothing catches it
HandleElse ==
    /\ InHandle("else", "start")
    /\ pc' = "raised"
    /\ stack' = <<>>
    /\ UNCHANGED <<config, files, output, fg, events, docs>>

(* ------------------------------- strings ------------------------------- *)
\* line 139: formatter.begin_string()
StrBegin ==
    /\ InHandle("str", "start")
    /\ Emit("begin_string", <<>>, "str", -1, Top.path)
    /\ stack' = Goto("open")
    /\ UNCHANGED <<config, files, pc, docs>>

\* line 140: formatter.cdata('"'); the loop over the characters starts
StrOpenQuote ==
    /\ InHandle("str", "open")
    /\ Emit("cdata", <<34>>, "quote", -1, Top.path)
    /\ stack' = [stack EXCEPT ![Len(stack)].pc = "chars", ![Len(stack)].i = 1]
    /\ UNCHANGED <<config, files, pc, docs>>

\* the character the loop of lines 141-156 is at
AtChar == InHandle("str", "chars") /\ Top.i <= Len(Top.value.s)
c == Top.value.s[Top.i]
NextChar == [stack EXCEPT ![Len(stack)].i = Top.i + 1]

\* lines 142-143: c in char_map
StrMapped ==
    /\ AtChar
    /\ c \in DOMAIN char_map(escape_slash)
    /\ Emit("escape_sequence", char_map(escape_slash)[c], "char_map", c, Top.path)
    /\ stack' = NextChar
    /\ UNCHANGED <<config, files, pc, docs>>

\* lines 145-154: cp > 127 or not c.isprintable()
StrUnicode ==
    /\ AtChar
    /\ c \notin DOMAIN char_map(escape_slash)
    /\ NotPlain(c)
    /\ Emit("escape_sequence", UnicodeEscape(c), "unicode", c, Top.path)
    /\ stack' = NextChar
    /\ UNCHANGED <<config, files, pc, docs>>

\* lines 155-156: formatter.cdata(c)
StrCdata ==
    /\ AtChar
    /\ c \notin DOMAIN char_map(escape_slash)
    /\ ~NotPlain(c)
    /\ Emit("cdata", <<c>>, "char", c, Top.path)
    /\ stack' = NextChar
    /\ UNCHANGED <<config, files, pc, docs>>

\* line 157: formatter.cdata('"') after the loop
StrCloseQuote ==
    /\ InHandle("str", "chars")
    /\ Top.i > Len(Top.value.s)
    /\ Emit("cdata", <<34>>, "quote", -1, Top.path)
    /\ stack' = Goto("end")
    /\ UNCHANGED <<config, files, pc, docs>>

\* line 158: formatter.end_string(), and handle returns
StrEnd ==
    /\ InHandle("str", "end")
    /\ Emit("end_string", <<>>, "str", -1, Top.path)
    /\ stack' = Return
    /\ UNCHANGED <<config, files, pc, docs>>

(* -------------------------------- lists -------------------------------- *)
\* the child indentation not accumulated
sub_indent_flat == indent
\* lines 161, 164
sub_indent == Top.indentation \o indent
item_indent == <<10>> \o sub_indent

\* the stack after the innermost activation moves to position p with its
\* iterator at i and calls handle(value, sub_indent)
Call(p, i, value, step) ==
    Append([stack EXCEPT ![Len(stack)].pc = p, ![Len(stack)].i = i],
           Frame(value, sub_indent, Append(Top.path, step)))

\* the closing line break written outside `if value:`
ListOpen_trailer ==
    /\ InHandle("list", "start")
    /\ Emit("bracket", <<91>>, "open", -1, Top.path)
    /\ stack' = Goto(IF Len(Top.value.items) > 0 THEN "first" ELSE "loop")
    /\ UNCHANGED <<config, files, pc, docs>>

\* lines 162-163: formatter.bracket('['); if value:
ListOpen ==
    /\ InHandle("list", "start")
    /\ Emit("bracket", <<91>>, "open", -1, Top.path)
    /\ stack' = Goto(IF Len(Top.value.items) > 0 THEN "first" ELSE "close")
    /\ UNCHANGED <<config, files, pc, docs>>

\* lines 166-167: formatter.cdata(item_indent); handle(next(it), sub_indent)
ListFirst ==
    /\ InHandle("list", "first")
    /\ Emit("cdata", item_indent, "item_indent", -1, Top.path)
    /\ stack' = Call("loop", 1, Top.value.items[1], <<1, 0>>)
    /\ UNCHANGED <<config, files, pc, docs>>

\* lines 168-169: for item in it: formatter.delimeter(',')
ListDelim ==
    /\ InHandle("list", "loop")
    /\ Top.i < Len(Top.value.items)
    /\ Emit("delimeter", <<44>>, "comma", -1, Top.path)
    /\ stack' = Goto("item")
    /\ UNCHANGED <<config, files, pc, docs>>

\* lines 170-171: formatter.cdata(item_indent); handle(item, sub_indent)
ListItem ==
    /\ InHandle("list", "item")
    /\ Emit("cdata", item_indent, "item_indent", -1, Top.path)
    /\ stack' = Call("loop", Top.i + 1, Top.value.items[Top.i + 1], <<Top.i + 1, 0>>)
    /\ UNCHANGED <<config, files, pc, docs>>

\* line 173: the iterator is exhausted: formatter.cdata('\n' + indentation)
ListTrailer ==
    /\ InHandle("list", "loop")
    /\ Top.i >= Len(Top.value.items)
    /\ Emit("cdata", <<10>> \o Top.indentation, "close_indent", -1, Top.path)
    /\ stack' = Goto("close")
    /\ UNCHANGED <<config, files, pc, docs>>

\* line 175: formatter.bracket(']'), and handle returns
ListClose ==
    /\ InHandle("list", "close")
    /\ Emit("bracket", <<93>>, "close", -1, Top.path)
    /\ stack' = Return
    /\ UNCHANGED <<config, files, pc, docs>>

(* -------------------------------- dicts -------------------------------- *)
\* lines 179-182: formatter.bracket('{'); if value: it = iter(...)
DictOpen ==
    /\ InHandle("dict", "start")
    /\ Emit("bracket", <<123>>, "open", -1, Top.path)
    /\ stack' = [stack EXCEPT
          ![Len(stack)].pc = IF Len(Top.value.keys) > 0 THEN "first" ELSE "close",
          ![Len(stack)].keys = IF Len(Top.value.keys) > 0
                                 THEN KeyOrder(Top.value, sort_keys) ELSE <<>>]
    /\ UNCHANGED <<config, files, pc, docs>>

\* lines 183-187: formatter.cdata(item_indent); key = next(it); handle(key, sub_indent)
DictFirst ==
    /\ InHandle("dict", "first")
    /\ Emit("cdata", item_indent, "item_indent", -1, Top.path)
    /\ stack' = Call("colon", 1, VStr(Top.keys[1]), <<1, 1>>)
    /\ UNCHANGED <<config, files, pc, docs>>

\* lines 188, 198: formatter.delimeter(':')
DictColon ==
    /\ InHandle("dict", "colon")
    /\ Emit("delimeter", <<58>>, "colon", -1, Top.path)
    /\ stack' = Goto("space")
    /\ UNCHANGED <<config, files, pc, docs>>

\* lines 185, 189-190, 193, 199-200: formatter.cdata(' '); handle(val, sub_indent)
DictSpace ==
    /\ InHandle("dict", "space")
    /\ Emit("cdata", <<32>>, "colon_space", -1, Top.path)
    /\ stack' = Call("loop", Top.i, Lookup(Top.value, Top.keys[Top.i]), <<Top.i, 0>>)
    /\ UNCHANGED <<config, files, pc, docs>>

\* lines 192, 194: for key in it: formatter.delimeter(',')
DictDelim ==
    /\ InHandle("dict", "loop")
    /\ Top.i < Len(Top.keys)
    /\ Emit("delimeter", <<44>>, "comma", -1, Top.path)
    /\ stack' = Goto("item")
    /\ UNCHANGED <<config, files, pc, docs>>

\* lines 195-197: formatter.cdata(item_indent); handle(key, sub_indent)
DictItem ==
    /\ InHandle("dict", "item")
    /\ Emit("cdata", item_indent, "item_indent", -1, Top.path)
    /\ stack' = Call("colon", Top.i + 1, VStr(Top.keys[Top.i + 1]), <<Top.i + 1, 1>>)
    /\ UNCHANGED <<config, files, pc, docs>>

\* line 202: the iterator is exhausted: formatter.cdata('\n' + indentation)
DictTrailer ==
    /\ InHandle("dict", "loop")
    /\ Top.i >= Len(Top.keys)
    /\ Emit("cdata", <<10>> \o Top.indentation, "close_indent", -1, Top.path)
    /\ stack' = Goto("close")
    /\ UNCHANGED <<config, files, pc, docs>>

\* line 204: formatter.bracket('}'), and handle returns
DictClose ==
    /\ InHandle("dict", "close")
    /\ Emit("bracket", <<125>>, "close", -1, Top.path)
    /\ stack' = Return
    /\ UNCHANGED <<config, files, pc, docs>>

(* ---------------------------- specification ---------------------------- *)
Next ==
    \/ JsonppCall
    \/ JsonppTail
    \/ HandleValue
    \/ HandleElse
    \/ StrBegin
    \/ StrOpenQuote
    \/ StrMapped
    \/ StrUnicode
    \/ StrCdata
    \/ StrCloseQuote
    \/ StrEnd
    \/ ListOpen
    \/ ListFirst
    \/ ListDelim
    \/ ListItem
    \/ ListTrailer
    \/ ListClose
    \/ DictOpen
    \/ DictFirst
    \/ DictColon
    \/ DictSpace
    \/ DictDelim
    \/ DictItem
    \/ DictTrailer
    \/ DictClose

Spec == Init /\ [][Next]_vars

(* ------------------------- reading the history ------------------------- *)
IsPrefix(p, q) == Len(p) <= Len(q) /\ SubSeq(q, 1, Len(p)) = p

\* a jsonpp call has returned
Completed(call) == call < Len(docs) \/ (call = Len(docs) /\ pc = "main")

\* the children of a value, in the order handle is specified to visit them:
\* a dict's keys ascending when sort_keys is set, in insertion order otherwise
Ascending(ks) == \A i \in 1..(Len(ks) - 1) : StrLess(ks[i], ks[i + 1])

VisitOrder(value) ==
    IF ~sort_keys THEN value.keys
    ELSE CHOOSE ks \in [1..Len(value.keys) -> {value.keys[j] : j \in 1..Len(value.keys)}] :
            Ascending(ks)

Size(value) ==
    IF value.k = "list" THEN Len(value.items)
    ELSE IF value.k = "dict" THEN Len(value.keys)
    ELSE 0

\* the child of a container that a path step names
Child(value, step) ==
    IF value.k = "list" THEN value.items[step[1]]
    ELSE LET key == VisitOrder(value)[step[1]]
         IN IF step[2] = 1 THEN VStr(key)
            ELSE value.vals[CHOOSE j \in 1..Len(value.keys) : value.keys[j] = key]

RECURSIVE NodeAt(_, _)
NodeAt(value, path) ==
    IF path = <<>> THEN value ELSE NodeAt(Child(value, Head(path)), Tail(path))

RECURSIVE Paths(_)
\* the paths of all nodes of a value (keys excluded)
Paths(value) ==
    {<<>>} \cup UNION {{<<<<j, 0>>>> \o p : p \in Paths(Child(value, <<j, 0>>))} :
                        j \in 1..Size(value)}

\* the paths of the nodes of a document that have the given kinds
PathsOf(doc, kinds) == {p \in Paths(doc) : NodeAt(doc, p).k \in kinds}

\* the formatter calls that the activation of handle on the node at path p
\* of a jsonpp call made itself (those of its children excluded)
NodeEvents(call, p) ==
    {i \in 1..Len(events) :
        events[i].call = call /\ events[i].node = p /\ events[i].site # "tail"}

\* the text one formatter call wrote
Written(i) ==
    SubSeq(output, events[i].at + 1,
           IF i < Len(events) THEN events[i + 1].at ELSE Len(output))

\* the colour in force after a formatter call
FgAfter(i) == IF i < Len(events) THEN events[i + 1].fg ELSE fg

(* ================================ claims =============================== *)

\* C1: every Boolean node of a rendered document yields exactly one value
\* event, with token "true" or "false", made from the boolean branch of
\* handle and not from the integer branch.
C1_BooleanIsItsOwnCase ==
    \A call \in 1..Len(docs) : Completed(call) =>
        \A p \in PathsOf(docs[call], {"bool"}) :
            LET at == NodeEvents(call, p)
            IN /\ Cardinality(at) = 1
               /\ \A i \in at :
                    /\ events[i].op = "value"
                    /\ events[i].site = "bool"
                    /\ events[i].arg = IF NodeAt(docs[call], p).b
                                         THEN <<116, 114, 117, 101>>
                                         ELSE <<102, 97, 108, 115, 101>>

\* C2: a character outside the escape map that is above 127 or unprintable
\* yields one escape_sequence: a single \uXXXX unit equal to cp when
\* cp <= 0xFFFF, else the surrogate pair high = ((cp-0x10000) >> 10) + 0xD800,
\* low = ((cp-0x10000) % 0x400) + 0xDC00, high in D800..DBFF, low in DC00..DFFF.
C2_UnicodeEscapeUnits ==
    \A i \in 1..Len(events) :
        LET e == events[i]
            high == ((e.cp - 65536) \div 1024) + 55296
            low == ((e.cp - 65536) % 1024) + 56320
        IN (/\ e.cp >= 0
            /\ e.cp \notin DOMAIN char_map(escape_slash)
            /\ (e.cp > 127 \/ e.cp \notin 32..126))
           => /\ e.op = "escape_sequence"
              /\ IF e.cp <= 65535
                   THEN e.arg = <<92, 117>> \o Hex04(e.cp)
                   ELSE /\ e.arg = <<92, 117>> \o Hex04(high) \o <<92, 117>> \o Hex04(low)
                        /\ high \in 55296..56319
                        /\ low \in 56320..57343

\* the formatter calls that write document structure
Structural(e) ==
    \/ e.op \in {"bracket", "delimeter"}
    \/ e.op = "cdata" /\ e.site \in {"item_indent", "close_indent", "colon_space", "tail"}

\* the formatter calls made between begin_string and end_string
InsideString(e) ==
    \/ e.op \in {"escape_sequence", "end_string"}
    \/ e.op = "cdata" /\ e.site \in {"quote", "char"}

\* C4: with TTYFormatter, every bracket, delimiter and structural cdata
\* (indentation, line break, the space after a colon) is written in the
\* default colour and carries no colour code; a colour is in force only
\* inside a string (after begin_string, up to end_string) or within the
\* one call that writes a scalar token, which resets it.
C4_StructureInDefaultColour ==
    formatter = "TTY" =>
        /\ \A i \in 1..Len(events) :
            LET e == events[i]
            IN /\ Structural(e) => e.fg = DEFAULT_COLOR /\ Written(i) = e.arg
               /\ e.fg # DEFAULT_COLOR => InsideString(e)
               /\ e.op = "value" => e.fg = DEFAULT_COLOR /\ FgAfter(i) = DEFAULT_COLOR
               /\ e.op = "end_string" => FgAfter(i) = DEFAULT_COLOR
        /\ fg # DEFAULT_COLOR =>
              /\ events # <<>>
              /\ events[Len(events)].op # "end_string"
              /\ \/ events[Len(events)].op = "begin_string"
                 \/ InsideString(events[Len(events)])

\* a coloured render of an object: an escape inside a key, then the colon,
\* then a scalar value, then the closing line break and bracket
C4_Witness ==
    /\ formatter = "TTY"
    /\ pc = "main"
    /\ \E i, j, k, l \in 1..Len(events) :
        /\ i < j /\ j < k /\ k < l
        /\ events[i].op = "escape_sequence"
        /\ events[j].site = "colon"
        /\ events[k].op = "value"
        /\ events[l].site = "close"

\* C6: an empty array is exactly bracket('[') then bracket(']'), an empty
\* object exactly bracket('{') then bracket('}'), nothing between them,
\* whatever the indent unit and the nesting depth.
C6_EmptyContainers ==
    \A call \in 1..Len(docs) :
        \A p \in PathsOf(docs[call], {"list", "dict"}) :
            LET at == NodeEvents(call, p)
                isList == NodeAt(docs[call], p).k = "list"
            IN /\ Completed(call) => at # {}
               /\ (Size(NodeAt(docs[call], p)) = 0 /\ at # {}) =>
                    \E i \in at :
                        /\ events[i].op = "bracket"
                        /\ events[i].arg = IF isList THEN <<91>> ELSE <<123>>
                        /\ \/ at = {i} /\ i = Len(events) /\ pc = "handle"
                           \/ /\ at = {i, i + 1}
                              /\ events[i + 1].op = "bracket"
                              /\ events[i + 1].arg = IF isList THEN <<93>> ELSE <<125>>
                              /\ Written(i) \o Written(i + 1) =
                                    IF isList THEN <<91, 93>> ELSE <<123, 125>>

\* an empty array and an empty object, both nested in a rendered document
C6_Witness ==
    /\ pc = "main"
    /\ docs # <<>>
    /\ \E p, q \in PathsOf(docs[1], {"list", "dict"}) :
        /\ p # <<>> /\ q # <<>>
        /\ NodeAt(docs[1], p) = VList(<<>>)
        /\ NodeAt(docs[1], q) = VDict(<<>>, <<>>)

\* handle is entered on a value of no supported type
AtUnsupported ==
    /\ pc = "handle"
    /\ stack # <<>>
    /\ Top.value.k \notin {"null", "bool", "int", "float", "str", "list", "dict"}

\* C7: when the traversal reaches a node of an unsupported type, the next
\* step raises: the output and the events so far stay as they are, and no
\* step follows the raise (no closing bracket, no trailing line break).
C7_UnsupportedRaises ==
    [][/\ AtUnsupported => (pc' = "raised" /\ output' = output /\ events' = events)
       /\ pc # "raised"]_vars

\* raised below an open array and an open object, after other output
C7_Witness ==
    /\ pc = "raised"
    /\ \E i, j \in 1..Len(events) :
        /\ i < j
        /\ events[i].op = "bracket"
        /\ events[j].op = "bracket"
        /\ events[Len(events)].site \in {"item_indent", "colon_space"}

\* the formatter calls of kind op made for the keys of the object at path p
KeyEvents(call, p, op) ==
    {i \in 1..Len(events) :
        /\ events[i].call = call
        /\ events[i].op = op
        /\ Len(events[i].node) = Len(p) + 1
        /\ IsPrefix(p, events[i].node)
        /\ events[i].node[Len(p) + 1][2] = 1}

\* C5: every key of a non-empty object is emitted exactly once, followed
\* by delimiter(':'), cdata(' ') and the rendering of that key's own value;
\* keys come in ascending order with sort_keys and in insertion order
\* without (VisitOrder).  Each activation of handle works on the node its
\* path names under that order.
C5_ObjectEntries ==
    /\ \A k \in 1..Len(stack) :
          stack[k].value = NodeAt(docs[Len(docs)], stack[k].path)
    /\ \A call \in 1..Len(docs) : Completed(call) =>
        \A p \in PathsOf(docs[call], {"dict"}) :
            LET d == NodeAt(docs[call], p)
                K == VisitOrder(d)
                begins == KeyEvents(call, p, "begin_string")
                ends == KeyEvents(call, p, "end_string")
            IN Len(d.keys) > 0 =>
                /\ Cardinality(begins) = Len(K)
                /\ Cardinality(ends) = Len(K)
                /\ \A j \in 1..Len(K) :
                    \E b \in begins, e \in ends :
                        /\ events[b].node = Append(p, <<j, 1>>)
                        /\ events[e].node = Append(p, <<j, 1>>)
                        /\ e - b = Len(K[j]) + 3
                        /\ \A m \in 1..Len(K[j]) :
                              /\ events[b + 1 + m].cp = K[j][m]
                              /\ events[b + 1 + m].node = events[b].node
                        /\ events[e + 1].op = "delimeter"
                        /\ events[e + 1].arg = <<58>>
                        /\ events[e + 1].node = p
                        /\ events[e + 2].op = "cdata"
                        /\ events[e + 2].arg = <<32>>
                        /\ events[e + 2].node = p
                        /\ IsPrefix(Append(p, <<j, 0>>), events[e + 3].node)
                        /\ events[e + 3].call = call
                        /\ \A b2 \in begins :
                              events[b2].node = Append(p, <<j + 1, 1>>) => e + 3 < b2

\* an object whose insertion order is not ascending, rendered with sort_keys
C5_Witness ==
    /\ pc = "main"
    /\ sort_keys
    /\ docs # <<>>
    /\ docs[1].k = "dict"
    /\ Len(docs[1].keys) = 2
    /\ StrLess(docs[1].keys[2], docs[1].keys[1])

\* the formatter calls of one jsonpp call, and the text they wrote
CallEvents(call) == {i \in 1..Len(events) : events[i].call = call}
MinOf(S) == CHOOSE x \in S : \A y \in S : x <= y
MaxOf(S) == CHOOSE x \in S : \A y \in S : x >= y
CallStart(call) == events[MinOf(CallEvents(call))].at
CallEnd(call) ==
    IF MaxOf(CallEvents(call)) < Len(events)
      THEN events[MaxOf(CallEvents(call)) + 1].at ELSE Len(output)
CallText(call) == SubSeq(output, CallStart(call) + 1, CallEnd(call))

\* C8: a jsonpp call that completes emits cdata('\n') once at the top
\* level, as its last event; the output of several calls on one sink is
\* the concatenation of the documents, each ending in exactly one line
\* break, and equal documents give equal text.
C8_OneTrailingNewline ==
    \A call \in 1..Len(docs) : Completed(call) =>
        LET last == MaxOf(CallEvents(call))
            text == CallText(call)
        IN /\ {i \in CallEvents(call) : events[i].site = "tail"} = {last}
           /\ events[last].op = "cdata"
           /\ events[last].arg = <<10>>
           /\ Written(last) = <<10>>
           /\ Len(text) >= 2
           /\ text[Len(text)] = 10
           /\ text[Len(text) - 1] # 10
           /\ CallStart(call) = IF call = 1 THEN 0 ELSE CallEnd(call - 1)
           /\ (call = Len(docs) => CallEnd(call) = Len(output))
           /\ \A other \in 1..Len(docs) :
                (Completed(other) /\ docs[other] = docs[call])
                    => CallText(other) = text

\* main has rendered two files, the same document twice
C8_Witness ==
    /\ pc = "main"
    /\ files = <<>>
    /\ Len(docs) >= 2
    /\ docs[1] = docs[2]
    /\ docs[1].k = "dict"

RECURSIVE Copies(_, _)
Copies(unit, n) == IF n = 0 THEN <<>> ELSE unit \o Copies(unit, n - 1)

\* the formatter calls made for the subtree at path q
Subtree(call, q) ==
    {i \in 1..Len(events) :
        events[i].call = call /\ IsPrefix(q, events[i].node) /\ events[i].site # "tail"}

IsCdataOf(i, call, p, text) ==
    /\ events[i].call = call
    /\ events[i].node = p
    /\ events[i].op = "cdata"
    /\ events[i].arg = text
    /\ Written(i) = text

IsCommaOf(i, call, p) ==
    /\ events[i].call = call
    /\ events[i].node = p
    /\ events[i].op = "delimeter"
    /\ events[i].arg = <<44>>

\* C9: a non-empty array or object with n entries, once its closing
\* bracket is written, at nesting depth d, I
\* being d copies of the indent unit: n-1 delimiter(',') events; every
\* entry is immediately preceded by cdata(newline + I + unit); the closing
\* bracket is immediately preceded by cdata(newline + I), which follows the
\* last entry directly (no delimiter after it).
C9_ContainerLayout ==
    \A call \in 1..Len(docs) :
        \A p \in PathsOf(docs[call], {"list", "dict"}) :
            LET v == NodeAt(docs[call], p)
                n == Size(v)
                I == Copies(indent, Len(p))
                entry(j) == Append(p, <<j, IF v.k = "dict" THEN 1 ELSE 0>>)
                close == {i \in NodeEvents(call, p) : events[i].site = "close"}
            IN /\ Completed(call) => close # {}
               /\ (n > 0 /\ close # {}) =>
                /\ Cardinality({i \in NodeEvents(call, p) : IsCommaOf(i, call, p)}) = n - 1
                /\ \A j \in 1..n :
                    LET b == MinOf(Subtree(call, entry(j)))
                    IN /\ IsCdataOf(b - 1, call, p, <<10>> \o I \o indent)
                       /\ IF j = 1 THEN events[b - 2].op = "bracket" /\ events[b - 2].node = p
                                   ELSE IsCommaOf(b - 2, call, p)
                /\ \E z \in close :
                    /\ close = {z}
                    /\ events[z].op = "bracket"
                    /\ IsCdataOf(z - 1, call, p, <<10>> \o I)
                    /\ z - 2 = MaxOf(Subtree(call, Append(p, <<n, 0>>)))

\* a two-entry container nested in a container, rendered to the end
C9_Witness ==
    /\ pc = "main"
    /\ docs # <<>>
    /\ \E p \in PathsOf(docs[1], {"list", "dict"}) :
        /\ p # <<>>
        /\ Size(NodeAt(docs[1], p)) = 2

RECURSIVE StripSGR(_, _)
StripSGR(text, i) ==
    IF i > Len(text) THEN <<>>
    ELSE IF IsSGRAt(text, i) THEN StripSGR(text, i + 5)
    ELSE <<text[i]>> \o StripSGR(text, i + 1)

RECURSIVE PlainText(_)
PlainText(i) ==
    IF i > Len(events) THEN <<>>
    ELSE Write("Plain", events[i].op, events[i].arg) \o PlainText(i + 1)

\* C10: the text TTYFormatter wrote, with every colour code removed, is
\* the text PlainFormatter writes for the same formatter calls (handle makes
\* the same calls whatever the formatter), and it leaves the terminal in
\* the default colour.
C10_StyledIsPlainPlusColour ==
    pc \in {"main", "raised"} =>
        IF formatter = "TTY"
          THEN StripSGR(output, 1) = PlainText(1) /\ fg = DEFAULT_COLOR
          ELSE output = PlainText(1)

\* a coloured render with an escape sequence, a scalar and brackets
C10_Witness ==
    /\ formatter = "TTY"
    /\ pc = "main"
    /\ files = <<>>
    /\ \E i, j, k \in 1..Len(events) :
        /\ events[i].op = "escape_sequence"
        /\ events[j].op = "value"
        /\ events[k].op = "bracket"

(* --------------------------- reading JSON back ------------------------- *)
\* json.load as main uses it: Python's parser, which also accepts NaN,
\* Infinity and -Infinity.  A result is [ok, v, p]: success, the value, the
\* position after it.
At(text, i) == IF i >= 1 /\ i <= Len(text) THEN text[i] ELSE -1

Failed == [ok |-> FALSE, v |-> VNone, p |-> 0]
Parsed(v, p) == [ok |-> TRUE, v |-> v, p |-> p]

Match(text, i, lit) ==
    i + Len(lit) - 1 <= Len(text) /\ SubSeq(text, i, i + Len(lit) - 1) = lit

RECURSIVE SkipWs(_, _)
SkipWs(text, i) == IF At(text, i) \in {32, 9, 10, 13} THEN SkipWs(text, i + 1) ELSE i

HexDigit(ch) ==
    IF ch \in 48..57 THEN ch - 48
    ELSE IF ch \in 65..70 THEN ch - 55
    ELSE IF ch \in 97..102 THEN ch - 87
    ELSE -1

\* the value of the four hex digits at i, or -1
Hex4At(text, i) ==
    IF \E j \in 0..3 : HexDigit(At(text, i + j)) < 0 THEN -1
    ELSE HexDigit(text[i]) * 4096 + HexDigit(text[i + 1]) * 256
         + HexDigit(text[i + 2]) * 16 + HexDigit(text[i + 3])

\* the character a backslash + letter escape stands for
Unescape ==
    (34 :> 34) @@ (92 :> 92) @@ (47 :> 47) @@ (98 :> 8) @@ (102 :> 12) @@
    (110 :> 10) @@ (114 :> 13) @@ (116 :> 9)

RECURSIVE ParseString(_, _, _)
\* the string whose opening quote ends at i - 1
ParseString(text, i, acc) ==
    LET ch == At(text, i)
    IN IF ch = 34 THEN Parsed(VStr(acc), i + 1)
       ELSE IF ch < 32 THEN Failed
       ELSE IF ch # 92 THEN ParseString(text, i + 1, Append(acc, ch))
       ELSE IF At(text, i + 1) \in DOMAIN Unescape
         THEN ParseString(text, i + 2, Append(acc, Unescape[text[i + 1]]))
       ELSE IF At(text, i + 1) # 117 \/ Hex4At(text, i + 2) < 0 THEN Failed
       ELSE LET uni == Hex4At(text, i + 2)
                uni2 == IF Match(text, i + 6, <<92, 117>>) THEN Hex4At(text, i + 8) ELSE -1
            IN IF uni \in 55296..56319 /\ uni2 \in 56320..57343
                 THEN ParseString(text, i + 12,
                        Append(acc, 65536 + (uni - 55296) * 1024 + (uni2 - 56320)))
                 ELSE ParseString(text, i + 6, Append(acc, uni))

RECURSIVE DigitsEnd(_, _)
\* the position after the run of decimal digits at i
DigitsEnd(text, i) == IF At(text, i) \in 48..57 THEN DigitsEnd(text, i + 1) ELSE i

RECURSIVE DecValue(_, _, _)
DecValue(text, i, j) ==
    IF j < i THEN 0 ELSE DecValue(text, i, j - 1) * 10 + (text[j] - 48)

\* -?(0|[1-9][0-9]*)(\.[0-9]+)? ; fractions other than .0 and .5 are not
\* values of the model
ParseNumber(text, i) ==
    LET neg == At(text, i) = 45
        b == IF neg THEN i + 1 ELSE i
        e == IF At(text, b) = 48 THEN b + 1 ELSE DigitsEnd(text, b)
        n == DecValue(text, b, e - 1)
        fe == DigitsEnd(text, e + 1)
    IN IF e = b THEN Failed
       ELSE IF At(text, e) = 46 /\ fe > e + 1
         THEN IF fe = e + 2 /\ text[e + 1] \in {48, 53}
                THEN Parsed(VFloat("fin", (IF neg THEN -1 ELSE 1)
                                * (2 * n + (IF text[e + 1] = 53 THEN 1 ELSE 0))), fe)
                ELSE Failed
         ELSE Parsed(VInt(IF neg THEN -n ELSE n), e)

RECURSIVE ParseValue(_, _), ParseItems(_, _, _), ParseMembers(_, _, _, _)
ParseValue(text, i) ==
    LET ch == At(text, i)
    IN IF ch = 34 THEN ParseString(text, i + 1, <<>>)
       ELSE IF ch = 123
         THEN IF At(text, SkipWs(text, i + 1)) = 125
                THEN Parsed(VDict(<<>>, <<>>), SkipWs(text, i + 1) + 1)
                ELSE ParseMembers(text, SkipWs(text, i + 1), <<>>, <<>>)
       ELSE IF ch = 91
         THEN IF At(text, SkipWs(text, i + 1)) = 93
                THEN Parsed(VList(<<>>), SkipWs(text, i + 1) + 1)
                ELSE ParseItems(text, SkipWs(text, i + 1), <<>>)
       ELSE IF Match(text, i, <<110, 117, 108, 108>>) THEN Parsed(VNone, i + 4)
       ELSE IF Match(text, i, <<116, 114, 117, 101>>) THEN Parsed(VBool(TRUE), i + 4)
       ELSE IF Match(text, i, <<102, 97, 108, 115, 101>>) THEN Parsed(VBool(FALSE), i + 5)
       ELSE IF ParseNumber(text, i).ok THEN ParseNumber(text, i)
       ELSE IF Match(text, i, <<78, 97, 78>>) THEN Parsed(VFloat("nan", 0), i + 3)
       ELSE IF Match(text, i, <<73, 110, 102, 105, 110, 105, 116, 121>>)
         THEN Parsed(VFloat("inf", 0), i + 8)
       ELSE IF Match(text, i, <<45, 73, 110, 102, 105, 110, 105, 116, 121>>)
         THEN Parsed(VFloat("ninf", 0), i + 9)
       ELSE Failed

ParseItems(text, i, acc) ==
    LET r == ParseValue(text, i)
        j == SkipWs(text, r.p)
    IN IF ~r.ok THEN Failed
       ELSE IF At(text, j) = 44
         THEN ParseItems(text, SkipWs(text, j + 1), Append(acc, r.v))
       ELSE IF At(text, j) = 93 THEN Parsed(VList(Append(acc, r.v)), j + 1)
       ELSE Failed

ParseMembers(text, i, keys, vals) ==
    LET key == IF At(text, i) = 34 THEN ParseString(text, i + 1, <<>>) ELSE Failed
        colon == SkipWs(text, key.p)
        r == IF key.ok /\ At(text, colon) = 58
               THEN ParseValue(text, SkipWs(text, colon + 1)) ELSE Failed
        j == SkipWs(text, r.p)
    IN IF ~r.ok THEN Failed
       ELSE IF At(text, j) = 44
         THEN ParseMembers(text, SkipWs(text, j + 1),
                           Append(keys, key.v.s), Append(vals, r.v))
       ELSE IF At(text, j) = 125
         THEN Parsed(VDict(Append(keys, key.v.s), Append(vals, r.v)), j + 1)
       ELSE Failed

\* json.loads(text): one value, white space around it, nothing else
ParseDocument(text) ==
    LET r == ParseValue(text, SkipWs(text, 1))
    IN IF r.ok /\ SkipWs(text, r.p) > Len(text) THEN r ELSE Failed

RECURSIVE DeepEqual(_, _)
\* equality of values, objects compared as mappings
DeepEqual(a, b) ==
    /\ a.k = b.k
    /\ IF a.k = "list"
         THEN /\ Len(a.items) = Len(b.items)
              /\ \A j \in 1..Len(a.items) : DeepEqual(a.items[j], b.items[j])
       ELSE IF a.k = "dict"
         THEN /\ Len(a.keys) = Len(b.keys)
              /\ \A j \in 1..Len(a.keys) :
                    /\ \E m \in 1..Len(b.keys) : b.keys[m] = a.keys[j]
                    /\ DeepEqual(a.vals[j], Lookup(b, a.keys[j]))
       ELSE a = b

\* the kinds of value JSON has, floats left out
JsonKinds == {"null", "bool", "int", "str", "list", "dict"}

\* C3: for a document built from null, booleans, integers, strings, arrays
\* and objects, parsing the text jsonpp wrote with PlainFormatter gives a
\* value deep-equal to the document, for every indent unit and every
\* setting of sort_keys and escape_slash.
C3_RoundTrip ==
    \A call \in 1..Len(docs) :
        (/\ Completed(call)
         /\ formatter = "Plain"
         /\ \A p \in Paths(docs[call]) : NodeAt(docs[call], p).k \in JsonKinds)
        => /\ ParseDocument(CallText(call)).ok
           /\ DeepEqual(ParseDocument(CallText(call)).v, docs[call])
====
